---- MODULE Spec2Model ----
(***************************************************************************)
(* A model of the PolyLens chain-to-analytics pipeline:                    *)
(*   - SyncScheduler (src/src/scheduler/jobs.py)                           *)
(*   - ConnectionManager (src/src/api/websocket/manager.py)                *)
(*   - WhaleDetector (src/src/dashboard/whale_detector.py)                 *)
(*   - the trade indexer and the store (src/src/core/indexer.py,           *)
(*     src/src/core/db/store.py, src/src/core/discovery.py)                *)
(* Each component has its own specification over the shared variables;     *)
(* the variables of the other components stay as Init left them.          *)
(***************************************************************************)
EXTENDS Integers, Sequences, FiniteSets, TLC

VARIABLES
    \* SyncScheduler
    is_syncing, sync_count, last_sync_result, running, job, notified,
    \* ConnectionManager
    active_connections, message_count, bcast, sock, received, finished,
    \* the SQLite database: the committed state, and the indexer
    \* connection's view of it (committed state plus its open transaction)
    committed, view,
    \* the indexer invocation in progress, and what is recorded about
    \* invocations for the properties
    run, hist, scanned,
    \* the collaborators: the chain's logs as get_logs returns them
    chain,
    \* what is recorded about the last store / detector call
    lastCall

schedVars == <<is_syncing, sync_count, last_sync_result, running, job, notified>>
wsVars == <<active_connections, message_count, bcast, sock, received, finished>>
dbVars == <<committed, view>>
idxVars == <<run, hist, scanned, chain>>
vars == <<schedVars, wsVars, dbVars, idxVars, lastCall>>

(***************************************************************************)
(* Generic helpers                                                         *)
(***************************************************************************)
Range(s) == {s[i] : i \in 1..Len(s)}

Max(S) == CHOOSE x \in S : \A y \in S : y <= x

Min2(a, b) == IF a <= b THEN a ELSE b

Count(x, s) == Cardinality({i \in 1..Len(s) : s[i] = x})

(***************************************************************************)
(* Bounds of the model                                                     *)
(***************************************************************************)
\* trades the whale specification lets the indexer commit
MaxTrades == 3
\* sync_job coroutines that may be in progress at once
NumTasks == 2
\* sync_job calls in all
MaxSyncs == 2
\* the chain's head: blocks 1..MaxBlock exist
MaxBlock == 3
\* batch_size arguments are 1..MaxBatch
MaxBatch == 2
\* indexer invocations in all
MaxRuns == 2
\* WebSocket handles that connect
NumConns == 2
\* broadcast calls in all
MaxBroadcasts == 2
\* broadcast calls that may be in progress at once
NumCallers == 2

(***************************************************************************)
(* The store (src/src/core/db/schema.py, src/src/core/db/store.py).        *)
(* A database state is a record of its tables.  AUTOINCREMENT ids are the  *)
(* positions in the table's sequence.  Amounts are kept in units of 1e6    *)
(* raw (whole USDC, whole tokens); a price is the exact ratio num/den.     *)
(* Columns no modelled code reads (maker, taker, fee, timestamp, slug,     *)
(* ...) are left out.                                                      *)
(***************************************************************************)
\* sync_state has no row for the key
NoRow == -1

EmptyDb ==
    [trades |-> <<>>, markets |-> <<>>, events |-> {},
     trade_sync |-> NoRow, whale_sync |-> NoRow, whale_trades |-> <<>>]

\* UNIQUE (tx_hash, log_index) of trades and of whale_trades
HasKey(rows, tx, li) ==
    \E i \in 1..Len(rows) : rows[i].tx_hash = tx /\ rows[i].log_index = li

\* UPDATE markets SET trade_count = trade_count + 1 WHERE id = ?
BumpTradeCount_never(markets, market_id) == markets

BumpTradeCount(markets, market_id) ==
    [i \in 1..Len(markets) |->
        IF i = market_id
        THEN [markets[i] EXCEPT !.trade_count = @ + 1]
        ELSE markets[i]]

\* the INSERT of insert_trade raises sqlite3.IntegrityError
InsertConflicts_never(db, trade) == FALSE

InsertConflicts(db, trade) == HasKey(db.trades, trade.tx_hash, trade.log_index)

insert_trade_bumps(db, trade) ==
    [db |-> [db EXCEPT
               !.trades = IF InsertConflicts(db, trade) THEN @ ELSE Append(@, trade),
               !.markets = IF trade.market_id # NoRow
                           THEN BumpTradeCount(@, trade.market_id)
                           ELSE @],
     ret |-> IF InsertConflicts(db, trade) THEN NoRow ELSE Len(db.trades) + 1]

\* insert_trade(conn, trade): the new database state and the returned id
\* (NoRow for None).  It does not commit.
insert_trade(db, trade) ==
    IF InsertConflicts(db, trade)
    THEN [db |-> db, ret |-> NoRow]
    ELSE [db |-> [db EXCEPT
                    !.trades = Append(@, trade),
                    !.markets = IF trade.market_id # NoRow
                                THEN BumpTradeCount(@, trade.market_id)
                                ELSE @],
          ret |-> Len(db.trades) + 1]

set_sync_state_noop(db, last_block) == db

\* set_sync_state(conn, key, last_block) for key = 'trade_sync' (the
\* caller commits the result)
set_sync_state(db, last_block) == [db EXCEPT !.trade_sync = last_block]

\* get_sync_state(conn, 'trade_sync'): NoRow for None
get_sync_state(db) == db.trade_sync

(***************************************************************************)
(* WhaleDetector (src/src/dashboard/whale_detector.py)                     *)
(***************************************************************************)
WHALE_THRESHOLD == 1000

\* self.threshold = threshold_usd or WHALE_THRESHOLD (0 stands for None
\* as well: both are falsy)
Threshold(threshold_usd) ==
    IF threshold_usd = 0 THEN WHALE_THRESHOLD ELSE threshold_usd

\* (price * size)
UsdValue(t) == (t.price.num * t.size) \div t.price.den

IsWhale_bySize(t, theta) == t.size > theta

\* WHERE (price * size) > ?
IsWhale(t, theta) == UsdValue(t) > theta

\* a whale_trades row made from trade t; theta_at_insert is not a column:
\* it records the threshold of the call that inserted the row
WhaleRow(t, theta) ==
    [tx_hash |-> t.tx_hash, log_index |-> t.log_index,
     market_id |-> t.market_id, usd_value |-> UsdValue(t),
     theta_at_insert |-> theta]

\* the ids of set S in ascending order
RECURSIVE Ascending(_)
Ascending(S) ==
    IF S = {} THEN <<>>
    ELSE LET m == CHOOSE x \in S : \A y \in S : x <= y
         IN <<m>> \o Ascending(S \ {m})

\* INSERT OR IGNORE INTO whale_trades, one row per trade id of ids, in order
RECURSIVE InsertWhales(_, _, _, _)
InsertWhales(whales, trades, ids, theta) ==
    IF ids = <<>> THEN whales
    ELSE LET t == trades[Head(ids)]
         IN InsertWhales(
                IF HasKey(whales, t.tx_hash, t.log_index)
                THEN whales
                ELSE Append(whales, WhaleRow(t, theta)),
                trades, Tail(ids), theta)

\* detect_from_trades: the backfill; ret is cursor.rowcount
detect_from_trades(db, theta) ==
    LET ids == Ascending({i \in 1..Len(db.trades) : IsWhale(db.trades[i], theta)})
        after == InsertWhales(db.whale_trades, db.trades, ids, theta)
    IN [db |-> [db EXCEPT !.whale_trades = after],
        ret |-> Len(after) - Len(db.whale_trades)]

\* since_trade_id = row["last_block"] if row else 0
SinceTradeId(db) == IF db.whale_sync = NoRow THEN 0 ELSE db.whale_sync

WhaleSyncAfter_stale(db, ids) == db.whale_sync

\* if new_whales: INSERT OR REPLACE INTO sync_state ('whale_sync', max_id)
WhaleSyncAfter(db, ids) ==
    IF ids # <<>> THEN Max(Range(ids)) ELSE db.whale_sync

\* detect_new_whales: the tail; ret is the list of the trade ids returned
detect_new_whales(db, theta) ==
    LET since == SinceTradeId(db)
        ids == Ascending({i \in 1..Len(db.trades) :
                            i > since /\ IsWhale(db.trades[i], theta)})
    IN [db |-> [db EXCEPT
                  !.whale_trades = InsertWhales(@, db.trades, ids, theta),
                  !.whale_sync = WhaleSyncAfter(db, ids)],
        ret |-> ids]

(***************************************************************************)
(* Specification SpecWhale: backfill and tail calls of the whale detector  *)
(* with varying thresholds, while the indexer commits new trades.          *)
(***************************************************************************)
\* (usdc, tokens) of the trades the indexer commits
WhaleAmounts == {<<500, 2000>>, <<1000, 2000>>, <<1500, 3000>>}

\* the threshold_usd a WhaleDetector is built with (0: none given)
ThresholdArgs == {0, 500, 1500}

NoCall ==
    [op |-> "none", theta |-> 0, before |-> EmptyDb, ret |-> <<>>,
     rowcount |-> 0, prevOp |-> "none", prevTheta |-> 0]

\* a trade of the given amounts with a fresh (tx_hash, log_index), as the
\* indexer hands it to insert_trade
NewTrade(db, usdc, tokens) ==
    [market_id |-> NoRow, tx_hash |-> 100 + Len(db.trades),
     log_index |-> 0, block_number |-> 1, side |-> "BUY",
     outcome |-> "YES", token_id |-> 0,
     price |-> [num |-> usdc, den |-> tokens], size |-> tokens]

\* the indexer inserts and commits one trade
WhaleCommitTrade(usdc, tokens) ==
    /\ Len(committed.trades) < MaxTrades
    /\ committed' = insert_trade(committed, NewTrade(committed, usdc, tokens)).db
    /\ lastCall' = [NoCall EXCEPT !.op = "commit"]
    /\ view' = committed'

\* WhaleDetector(db, threshold_usd).detect_from_trades()
Backfill(arg) ==
    LET theta == Threshold(arg)
        r == detect_from_trades(committed, theta)
    IN /\ committed' = r.db
       /\ view' = committed'
       /\ lastCall' = [op |-> "backfill", theta |-> theta, before |-> committed,
                       ret |-> <<>>, rowcount |-> r.ret,
                       prevOp |-> lastCall.op, prevTheta |-> lastCall.theta]

\* WhaleDetector(db, threshold_usd).detect_new_whales()
TailCall(arg) ==
    LET theta == Threshold(arg)
        r == detect_new_whales(committed, theta)
    IN /\ committed' = r.db
       /\ view' = committed'
       /\ lastCall' = [op |-> "tail", theta |-> theta, before |-> committed,
                       ret |-> r.ret,
                       rowcount |-> Len(r.db.whale_trades) - Len(committed.whale_trades),
                       prevOp |-> lastCall.op, prevTheta |-> lastCall.theta]

WhaleNext ==
    /\ \/ \E a \in WhaleAmounts : WhaleCommitTrade(a[1], a[2])
       \/ \E arg \in ThresholdArgs : Backfill(arg)
       \/ \E arg \in ThresholdArgs : TailCall(arg)
    /\ UNCHANGED <<schedVars, wsVars, idxVars>>

(***************************************************************************)
(* Initial states                                                          *)
(***************************************************************************)
SchedInit ==
    /\ is_syncing = FALSE
    /\ sync_count = 0
    /\ last_sync_result = 0
    /\ running = TRUE
    /\ job = 0
    /\ notified = 0

WsInit ==
    /\ active_connections = 0
    /\ message_count = 0
    /\ bcast = 0
    /\ sock = 0
    /\ received = 0
    /\ finished = 0

IdxInit ==
    /\ run = 0
    /\ hist = 0
    /\ chain = 0
    /\ scanned = 0

DbInit ==
    /\ committed = EmptyDb
    /\ view = EmptyDb

WhaleInit == SchedInit /\ WsInit /\ IdxInit /\ DbInit /\ lastCall = NoCall

SpecWhale == WhaleInit /\ [][WhaleNext]_vars

(***************************************************************************)
(* Properties of the whale detector                                        *)
(***************************************************************************)
TradeOf(db, id) == db.trades[id]

\* C8: detect_new_whales returns, in ascending id order, exactly the trades
\* with id > whale_sync (0 without a cursor row) whose price*size exceeds
\* the threshold, has them in whale_trades afterwards and sets whale_sync
\* to the largest id returned; a second call with the same threshold on an
\* unchanged trades table returns nothing, inserts nothing and leaves
\* whale_sync as it was.
C8_TailContract ==
    lastCall.op = "tail" =>
        LET b == lastCall.before
            r == lastCall.ret
            since == IF b.whale_sync = NoRow THEN 0 ELSE b.whale_sync
        IN /\ \A i, j \in 1..Len(r) : i < j => r[i] < r[j]
           /\ Range(r) = {id \in 1..Len(b.trades) :
                            /\ id > since
                            /\ b.trades[id].price.num * b.trades[id].size
                                 > lastCall.theta * b.trades[id].price.den}
           /\ \A id \in Range(r) :
                 HasKey(committed.whale_trades,
                        b.trades[id].tx_hash, b.trades[id].log_index)
           /\ committed.whale_sync =
                 IF r = <<>> THEN b.whale_sync ELSE r[Len(r)]
           /\ (lastCall.prevOp = "tail" /\ lastCall.prevTheta = lastCall.theta)
                 => /\ r = <<>>
                    /\ lastCall.rowcount = 0
                    /\ committed.whale_trades = b.whale_trades
                    /\ committed.whale_sync = b.whale_sync

\* a second tail call with the same threshold, after a first one that
\* returned whales
C8_Witness ==
    /\ lastCall.op = "tail"
    /\ lastCall.prevOp = "tail"
    /\ lastCall.prevTheta = lastCall.theta
    /\ lastCall.before.whale_sync >= 2
    /\ Len(committed.whale_trades) >= 2

\* C9: every whale_trades row has a (tx_hash, log_index) that exists in
\* trades and a usd_value at least the threshold in force at the call that
\* inserted it.
C9_WhaleRowsSound ==
    \A i \in 1..Len(committed.whale_trades) :
        LET w == committed.whale_trades[i]
        IN /\ HasKey(committed.trades, w.tx_hash, w.log_index)
           /\ w.usd_value >= w.theta_at_insert

\* rows inserted by a backfill and by a tail that ran with different
\* thresholds
C9_Witness ==
    /\ \E i, j \in 1..Len(committed.whale_trades) :
          committed.whale_trades[i].theta_at_insert
              # committed.whale_trades[j].theta_at_insert
    /\ lastCall.op = "tail"
    /\ lastCall.rowcount > 0
    /\ \E i \in 1..Len(committed.trades) :
          ~HasKey(committed.whale_trades, committed.trades[i].tx_hash,
                  committed.trades[i].log_index)

(***************************************************************************)
(* ConnectionManager (src/src/api/websocket/manager.py).                   *)
(* A message is its _broadcast_id; 0 is the {type: connected} envelope.    *)
(* Every await on a send or an accept is a step of its own.                *)
(***************************************************************************)
Channels == {"whales", "trades"}
Handles == 1..NumConns
Callers == 1..NumCallers
Connected == 0

IdleCall ==
    [pc |-> "idle", channel |-> "whales", id |-> 0, snapshot |-> {},
     todo |-> {}, dead |-> {}, raised |-> {}]

WsInitReal ==
    /\ active_connections = [c \in Channels |-> {}]
    /\ message_count = 0
    /\ bcast = [b \in Callers |-> IdleCall]
    /\ sock = [h \in Handles |-> [st |-> "new", channel |-> "whales", alive |-> TRUE]]
    /\ received = [h \in Handles |-> <<>>]
    /\ finished = {}

\* connect: await websocket.accept(), then, with no await in between,
\* async with self._lock: self.active_connections[channel].add(websocket)
\* (the lock is only ever held across code that does not await, so it is
\* free here).  Handles are interchangeable: they connect in order.
ConnectJoin(h, ch) ==
    /\ sock[h].st = "new"
    /\ \A h2 \in Handles : h2 < h => sock[h2].st # "new"
    /\ active_connections' = [active_connections EXCEPT ![ch] = @ \cup {h}]
    /\ sock' = [sock EXCEPT ![h] = [@ EXCEPT !.st = "joined", !.channel = ch]]
    /\ UNCHANGED <<message_count, bcast, received, finished>>

\* connect: await websocket.send_json({"type": "connected", ...}); on a
\* dead transport the send raises and the route ends without disconnect()
ConnectWelcome(h) ==
    /\ sock[h].st = "joined"
    /\ IF sock[h].alive
       THEN /\ received' = [received EXCEPT ![h] = Append(@, Connected)]
            /\ sock' = [sock EXCEPT ![h].st = "open"]
       ELSE /\ sock' = [sock EXCEPT ![h].st = "failed"]
            /\ UNCHANGED received
    /\ UNCHANGED <<active_connections, message_count, bcast, finished>>

\* the client's transport closes
Kill(h) ==
    /\ sock[h].st \in {"joined", "open"}
    /\ sock[h].alive
    /\ sock' = [sock EXCEPT ![h].alive = FALSE]
    /\ UNCHANGED <<active_connections, message_count, bcast, received, finished>>

\* the route's receive loop raises WebSocketDisconnect: disconnect()
Disconnect(h) ==
    /\ sock[h].st = "open"
    /\ ~sock[h].alive
    /\ active_connections' =
          [active_connections EXCEPT ![sock[h].channel] = @ \ {h}]
    /\ sock' = [sock EXCEPT ![h].st = "closed"]
    /\ UNCHANGED <<message_count, bcast, received, finished>>

Cleanup_keep(conns, dead) == conns

\* for conn in dead_connections: self.active_connections[channel].discard(conn)
Cleanup(conns, dead) == conns \ dead

\* the record kept of a broadcast call that returned
Finished(c) ==
    [id |-> c.id, channel |-> c.channel, snapshot |-> c.snapshot,
     dead |-> c.dead, raised |-> c.raised]

\* broadcast: up to the first send (the id, the snapshot copy of the set);
\* the call takes the first free caller slot (the slots are interchangeable)
BroadcastStart(b, ch) ==
    /\ bcast[b].pc = "idle"
    /\ \A b2 \in Callers : bcast[b2].pc = "idle" => b <= b2
    /\ message_count < MaxBroadcasts
    /\ message_count' = message_count + 1
    /\ LET c == [pc |-> "sending", channel |-> ch, id |-> message_count + 1,
                 snapshot |-> active_connections[ch],
                 todo |-> active_connections[ch], dead |-> {}, raised |-> {}]
       IN IF c.snapshot = {}
          THEN /\ bcast' = [bcast EXCEPT ![b] = IdleCall]
               /\ finished' = finished \cup {Finished(c)}
          ELSE /\ bcast' = [bcast EXCEPT ![b] = c]
               /\ UNCHANGED finished
    /\ UNCHANGED <<active_connections, sock, received>>

\* broadcast: one await connection.send_text(data) of the loop over the
\* snapshot, with its except branch; after the last one, the clean-up
BroadcastSend(b, h) ==
    /\ bcast[b].pc = "sending"
    /\ h \in bcast[b].todo
    /\ LET ok == sock[h].alive
           c == [bcast[b] EXCEPT
                   !.todo = @ \ {h},
                   !.dead = IF ok THEN @ ELSE @ \cup {h},
                   !.raised = IF ok THEN @ ELSE @ \cup {h}]
       IN /\ received' = IF ok THEN [received EXCEPT ![h] = Append(@, c.id)]
                         ELSE received
          /\ IF c.todo = {}
             THEN /\ active_connections' =
                        [active_connections EXCEPT
                           ![c.channel] = Cleanup(@, c.dead)]
                  /\ bcast' = [bcast EXCEPT ![b] = IdleCall]
                  /\ finished' = finished \cup {Finished(c)}
             ELSE /\ bcast' = [bcast EXCEPT ![b] = c]
                  /\ UNCHANGED <<active_connections, finished>>
    /\ UNCHANGED <<message_count, sock>>

WsNext ==
    /\ \/ \E h \in Handles, ch \in Channels : ConnectJoin(h, ch)
       \/ \E h \in Handles : ConnectWelcome(h)
       \/ \E h \in Handles : Kill(h)
       \/ \E h \in Handles : Disconnect(h)
       \/ \E b \in Callers, ch \in Channels : BroadcastStart(b, ch)
       \/ \E b \in Callers, h \in Handles : BroadcastSend(b, h)
    /\ UNCHANGED <<schedVars, dbVars, idxVars, lastCall>>

WsSpecInit == SchedInit /\ WsInitReal /\ IdxInit /\ DbInit /\ lastCall = NoCall

SpecWs == WsSpecInit /\ [][WsNext]_vars

(***************************************************************************)
(* Properties of the connection manager                                    *)
(***************************************************************************)
\* C6: every subscriber that stays connected observes the broadcast
\* messages of its channel in strictly increasing _broadcast_id order,
\* under any interleaving of concurrent broadcast calls.
C6_OrderedPerSubscriber ==
    \A h \in Handles :
        (sock[h].st \in {"joined", "open"} /\ sock[h].alive)
            => \A i, j \in 1..Len(received[h]) :
                  (i < j /\ received[h][i] # Connected /\ received[h][j] # Connected)
                      => received[h][i] < received[h][j]

\* C7: in a broadcast that returned, a subscriber of the snapshot whose
\* send raised is no longer in the channel's set and did not get the
\* message, every other subscriber of the snapshot got it, and no
\* subscriber got any broadcast twice.
C7_FailedSendEjects ==
    /\ \A r \in finished :
          \A h \in r.snapshot :
              IF h \in r.raised
              THEN /\ h \notin active_connections[r.channel]
                   /\ Count(r.id, received[h]) = 0
              ELSE Count(r.id, received[h]) = 1
    /\ \A h \in Handles :
          \A id \in 1..message_count : Count(id, received[h]) <= 1

\* a broadcast returned after one send raised and another succeeded
C7_Witness ==
    \E r \in finished :
        /\ r.raised # {}
        /\ r.snapshot \ r.raised # {}

(***************************************************************************)
(* SyncScheduler (src/src/scheduler/jobs.py).  A task is one call of       *)
(* sync_job on the event loop, made by the interval trigger ("tick") or    *)
(* by trigger_sync ("trigger"); it moves from one await to the next.       *)
(***************************************************************************)
Tasks == 1..NumTasks

NoResult ==
    [set |-> FALSE, sync_count |-> 0, error |-> FALSE, inserted_trades |-> 0]

IdleTask ==
    [pc |-> "idle", kind |-> "tick", inserted |-> 0, whales |-> <<>>,
     steps |-> {}, sawSyncing |-> FALSE, raised |-> FALSE, cancelled |-> FALSE,
     returned |-> <<>>, sent |-> <<>>, ret |-> NoResult]

SchedInitReal ==
    /\ is_syncing = FALSE
    /\ sync_count = 0
    /\ last_sync_result = NoResult
    /\ running = TRUE
    /\ job = [t \in Tasks |-> IdleTask]
    /\ notified = <<>>

\* the (usdc, tokens) amounts of the trades a sync brings in: one below
\* the whale threshold, one above it
SyncAmounts == {<<500, 2000>>, <<1500, 3000>>}

BodyPcs == {"sync", "refresh", "traders", "detect", "notify"}

SkipIfSyncing_never == FALSE

\* if self.is_syncing: ... return
SkipIfSyncing == is_syncing

\* sync_job up to its first await: the is_syncing test, is_syncing = True,
\* sync_count += 1.  A tick needs the scheduler running.  A new call takes
\* the lowest free slot.
SyncJobEnter(t, kind) ==
    /\ job[t].pc = "idle"
    /\ \A u \in Tasks : job[u].pc = "idle" => t <= u
    /\ sync_count < MaxSyncs
    /\ kind = "tick" => running
    /\ IF SkipIfSyncing
       THEN /\ job' = [job EXCEPT ![t] =
                        [IdleTask EXCEPT !.pc = "done", !.kind = kind,
                                         !.sawSyncing = is_syncing,
                                         !.ret = last_sync_result]]
            /\ UNCHANGED <<is_syncing, sync_count>>
       ELSE /\ is_syncing' = TRUE
            /\ sync_count' = sync_count + 1
            /\ job' = [job EXCEPT ![t] =
                        [IdleTask EXCEPT !.pc = "sync", !.kind = kind,
                                         !.sawSyncing = is_syncing]]
    /\ UNCHANGED <<last_sync_result, running, notified, committed>>

\* the end of the try block, then finally: last_sync_result, is_syncing =
\* False, and trigger_sync's return of self.last_sync_result
Finish(t, j) ==
    LET res == [set |-> TRUE, sync_count |-> sync_count, error |-> FALSE,
                inserted_trades |-> j.inserted]
    IN /\ last_sync_result' = res
       /\ is_syncing' = FALSE
       /\ job' = [job EXCEPT ![t] = [j EXCEPT !.pc = "done", !.ret = res]]

Fail_stuck(t, j) ==
    /\ last_sync_result' = last_sync_result
    /\ is_syncing' = is_syncing
    /\ job' = [job EXCEPT ![t] = [j EXCEPT !.pc = "done", !.raised = TRUE]]

\* a step raised.  except Exception: last_sync_result = {sync_count,
\* error}; finally: is_syncing = False
Fail(t, j) ==
    LET res == [set |-> TRUE, sync_count |-> sync_count, error |-> TRUE,
                inserted_trades |-> 0]
    IN /\ last_sync_result' = res
       /\ is_syncing' = FALSE
       /\ job' = [job EXCEPT ![t] =
                    [j EXCEPT !.pc = "done", !.raised = TRUE, !.ret = res]]

Did(t, step) == [job[t] EXCEPT !.steps = @ \cup {step}]

\* 1. result = await asyncio.to_thread(self._sync_trades_sync): the
\* indexer commits the new trades of the chain, or raises
StepSyncTrades(t) ==
    /\ job[t].pc = "sync" /\ ~job[t].cancelled
    /\ \/ /\ job' = [job EXCEPT ![t] = [Did(t, "sync") EXCEPT !.pc = "refresh"]]
          /\ UNCHANGED <<committed, is_syncing, last_sync_result>>
       \/ /\ Len(committed.trades) < MaxTrades
          /\ \E a \in SyncAmounts :
                committed' =
                    insert_trade(committed, NewTrade(committed, a[1], a[2])).db
          /\ job' = [job EXCEPT ![t] =
                       [Did(t, "sync") EXCEPT !.pc = "refresh", !.inserted = 1]]
          /\ UNCHANGED <<is_syncing, last_sync_result>>
       \/ /\ Fail(t, Did(t, "sync"))
          /\ UNCHANGED committed
    /\ UNCHANGED <<sync_count, running, notified>>

\* 2. price_updated = await asyncio.to_thread(refresh_prices)
StepRefreshPrices(t) ==
    /\ job[t].pc = "refresh" /\ ~job[t].cancelled
    /\ \/ /\ job' = [job EXCEPT ![t] = [Did(t, "refresh") EXCEPT !.pc = "traders"]]
          /\ UNCHANGED <<is_syncing, last_sync_result>>
       \/ Fail(t, Did(t, "refresh"))
    /\ UNCHANGED <<sync_count, running, notified, committed>>

\* 2.5 traders_updated = await asyncio.to_thread(update_traders), then
\* if inserted > 0
StepUpdateTraders(t) ==
    /\ job[t].pc = "traders" /\ ~job[t].cancelled
    /\ \/ IF job[t].inserted > 0
          THEN /\ job' = [job EXCEPT ![t] =
                            [Did(t, "traders") EXCEPT !.pc = "detect"]]
               /\ UNCHANGED <<is_syncing, last_sync_result>>
          ELSE Finish(t, Did(t, "traders"))
       \/ Fail(t, Did(t, "traders"))
    /\ UNCHANGED <<sync_count, running, notified, committed>>

\* 3. new_whales = await asyncio.to_thread(detect_whales)
StepDetectWhales(t, threshold_usd) ==
    /\ job[t].pc = "detect" /\ ~job[t].cancelled
    /\ \/ LET r == detect_new_whales(committed, Threshold(threshold_usd))
          IN /\ committed' = r.db
             /\ IF r.ret # <<>>
                THEN /\ job' = [job EXCEPT ![t] =
                                  [Did(t, "detect") EXCEPT
                                      !.pc = "notify", !.whales = r.ret,
                                      !.returned = r.ret]]
                     /\ UNCHANGED <<is_syncing, last_sync_result>>
                ELSE Finish(t, Did(t, "detect"))
       \/ /\ Fail(t, Did(t, "detect"))
          /\ UNCHANGED committed
    /\ UNCHANGED <<sync_count, running, notified>>

\* for whale in new_whales: await self.whale_notifier(whale), an exception
\* of the notifier being logged; after the last one, the end of the job
StepNotify(t) ==
    /\ job[t].pc = "notify" /\ ~job[t].cancelled
    /\ notified' = Append(notified, Head(job[t].whales))
    /\ LET j == [Did(t, "notify") EXCEPT
                    !.whales = Tail(@),
                    !.sent = Append(@, Head(job[t].whales))]
       IN IF j.whales = <<>>
          THEN Finish(t, j)
          ELSE /\ job' = [job EXCEPT ![t] = j]
               /\ UNCHANGED <<is_syncing, last_sync_result>>
    /\ UNCHANGED <<sync_count, running, committed>>

\* the call has returned; the slot is free for the next call
Return(t) ==
    /\ job[t].pc = "done"
    /\ job' = [job EXCEPT ![t] = IdleTask]
    /\ UNCHANGED <<is_syncing, sync_count, last_sync_result, running,
                   notified, committed>>

\* the sync_job task was cancelled while suspended at an await: the
\* CancelledError is no Exception, so only the finally block runs
Cancelled(t) ==
    /\ job[t].pc \in BodyPcs /\ job[t].cancelled
    /\ is_syncing' = FALSE
    /\ job' = [job EXCEPT ![t] = [@ EXCEPT !.pc = "done"]]
    /\ UNCHANGED <<sync_count, last_sync_result, running, notified, committed>>

\* stop(): self.scheduler.shutdown(wait=False).  The scheduler fires no
\* further tick.  Shutting down the scheduler shuts down its executor; an
\* executor that cancels the futures of its running coroutine jobs cancels
\* the sync_job task a tick started, one that does not leaves it running.
\* A sync_job awaited by trigger_sync is no job of the scheduler.
Stop ==
    /\ running
    /\ running' = FALSE
    /\ \E cancels \in BOOLEAN :
          job' = [t \in Tasks |->
                    IF cancels /\ job[t].kind = "tick" /\ job[t].pc \in BodyPcs
                    THEN [job[t] EXCEPT !.cancelled = TRUE]
                    ELSE job[t]]
    /\ UNCHANGED <<is_syncing, sync_count, last_sync_result, notified,
                   committed>>

SchedNext ==
    /\ \/ \E t \in Tasks, k \in {"tick", "trigger"} : SyncJobEnter(t, k)
       \/ \E t \in Tasks : StepSyncTrades(t)
       \/ \E t \in Tasks : StepRefreshPrices(t)
       \/ \E t \in Tasks : StepUpdateTraders(t)
       \/ \E t \in Tasks : StepDetectWhales(t, WHALE_THRESHOLD)
       \/ \E t \in Tasks : StepNotify(t)
       \/ \E t \in Tasks : Return(t)
       \/ \E t \in Tasks : Cancelled(t)
       \/ Stop
    /\ view' = committed'
    /\ UNCHANGED <<wsVars, idxVars, lastCall>>

SchedSpecInit == SchedInitReal /\ WsInit /\ IdxInit /\ DbInit /\ lastCall = NoCall

SpecSched == SchedSpecInit /\ [][SchedNext]_vars

\* the steps of one sync_job call after its entry
TaskStep(t) ==
    /\ \/ StepSyncTrades(t)
       \/ StepRefreshPrices(t)
       \/ StepUpdateTraders(t)
       \/ StepDetectWhales(t, WHALE_THRESHOLD)
       \/ StepNotify(t)
       \/ Cancelled(t)
    /\ view' = committed'
    /\ UNCHANGED <<wsVars, idxVars, lastCall>>

\* the scheduler when every awaited call of a sync_job returns or raises:
\* the worker thread of asyncio.to_thread ends, the notifier returns
SpecSchedLive ==
    SchedSpecInit /\ [][SchedNext]_vars /\ \A t \in Tasks : WF_vars(TaskStep(t))

(***************************************************************************)
(* Properties of the scheduler                                             *)
(***************************************************************************)
InBody(t) == job[t].pc \in BodyPcs

\* C1: at most one sync_job body (between is_syncing = True and its reset)
\* is executing at any time, and a sync_job entered while is_syncing is
\* true returns without running any pipeline step.
C1_NonOverlap ==
    /\ Cardinality({t \in Tasks : InBody(t)}) <= 1
    /\ \A t \in Tasks :
          job[t].sawSyncing => (job[t].steps = {} /\ ~InBody(t))

\* a manual trigger was skipped while a tick's sync was in its body
C1_Witness ==
    \E t, u \in Tasks :
        /\ job[t].kind = "tick" /\ job[t].pc = "detect"
        /\ job[u].kind = "trigger" /\ job[u].pc = "done" /\ job[u].sawSyncing

(***************************************************************************)
(* Market discovery (src/src/core/discovery.py) and the market table of    *)
(* the store.  A null column or argument is NoRow.                         *)
(***************************************************************************)
\* what the Gamma API serves: its markets with their event slug and
\* clobTokenIds.  Market 2's clobTokenIds differ from the token ids
\* calculate_token_ids derives from its conditionId.
GammaMarkets ==
    { [conditionId |-> 1, event |-> 1, clob_yes |-> 1, clob_no |-> 2,
       active |-> 1, closed |-> 0],
      [conditionId |-> 2, event |-> 1, clob_yes |-> 3, clob_no |-> 4,
       active |-> 1, closed |-> 0] }

\* None where a Gamma market is expected
NoGammaMarket ==
    [conditionId |-> NoRow, event |-> NoRow, clob_yes |-> NoRow, clob_no |-> NoRow,
     active |-> NoRow, closed |-> NoRow]

\* None where a market dictionary is expected
NoMarket == [id |-> NoRow, yes_token_id |-> NoRow, no_token_id |-> NoRow]

\* calculate_token_ids(condition_id, is_neg_risk) as a table over the
\* condition ids of GammaMarkets
calculate_token_ids(condition_id) ==
    IF condition_id = 1
    THEN [yesTokenId |-> 1, noTokenId |-> 2]
    ELSE [yesTokenId |-> 13, noTokenId |-> 14]

\* fetch_market_by_token_id_from_gamma(token_id): markets[0] of the reply,
\* None when the reply is empty or the request failed
fetch_market_by_token_id_from_gamma(token_id, gamma_up) ==
    LET ms == {m \in GammaMarkets : token_id \in {m.clob_yes, m.clob_no}}
    IN IF gamma_up /\ ms # {} THEN CHOOSE m \in ms : TRUE ELSE NoGammaMarket

\* verify_token_ids(condition_id, is_neg_risk, gamma_yes, gamma_no)
verify_token_ids(condition_id, gamma_yes_token, gamma_no_token) ==
    LET calculated == calculate_token_ids(condition_id)
        match == /\ gamma_yes_token = calculated.yesTokenId
                 /\ gamma_no_token = calculated.noTokenId
    IN [verified |-> match, calculated_yes |-> calculated.yesTokenId,
        calculated_no |-> calculated.noTokenId, warning |-> ~match]

\* COALESCE(?, column)
Coalesce(new, old) == IF new # NoRow THEN new ELSE old

\* _get_status(data): the status key when it is set, else derived from the
\* archived, closed and active flags (1 for True, 0 for False, NoRow for
\* None or a missing key; "" for a missing status); never None
get_status(data) ==
    IF data.status # "" THEN data.status
    ELSE IF data.archived = 1 THEN "archived"
    ELSE IF data.closed = 1 THEN "closed"
    ELSE IF data.active = 0 THEN "closed"
    ELSE "active"

\* upsert_event(conn, event): the events table keeps one row per slug
upsert_event(db, slug) == [db EXCEPT !.events = @ \cup {slug}]

\* upsert_market(conn, market): UPDATE by condition_id with COALESCE, or
\* INSERT; the new state and the market id
upsert_market(db, market) ==
    LET rows == {i \in 1..Len(db.markets) :
                    db.markets[i].condition_id = market.condition_id}
    IN IF rows # {}
       THEN LET i == CHOOSE r \in rows : TRUE
                old == db.markets[i]
                new == [old EXCEPT
                          !.event_id = Coalesce(market.event_id, @),
                          !.yes_token_id = Coalesce(market.yes_token_id, @),
                          !.no_token_id = Coalesce(market.no_token_id, @),
                          !.status = IF get_status(market) # ""
                                     THEN get_status(market) ELSE @,
                          !.sync_warning = market.sync_warning]
            IN [db |-> [db EXCEPT !.markets[i] = new], ret |-> i]
       ELSE [db |-> [db EXCEPT !.markets =
                        Append(@, [condition_id |-> market.condition_id,
                                   event_id |-> market.event_id,
                                   yes_token_id |-> market.yes_token_id,
                                   no_token_id |-> market.no_token_id,
                                   status |-> get_status(market),
                                   sync_warning |-> market.sync_warning,
                                   trade_count |-> 0])],
             ret |-> Len(db.markets) + 1]

\* process_market(conn, market): upsert_event for events[0], the token
\* ids calculated from the condition id in place of Gamma's, upsert_market
process_market(db, market) ==
    LET db1 == upsert_event(db, market.event)
        verification ==
            verify_token_ids(market.conditionId, market.clob_yes, market.clob_no)
        r == upsert_market(db1,
                [condition_id |-> market.conditionId,
                 event_id |-> market.event,
                 yes_token_id |-> verification.calculated_yes,
                 no_token_id |-> verification.calculated_no,
                 status |-> "", archived |-> NoRow,
                 closed |-> market.closed, active |-> market.active,
                 sync_warning |-> verification.warning])
    IN [db |-> r.db,
        market |-> [id |-> r.ret,
                    yes_token_id |-> verification.calculated_yes,
                    no_token_id |-> verification.calculated_no]]

\* discover_market_by_token_id(conn, token_id): None, or the market that
\* process_market saved.  upsert_event and upsert_market commit.
discover_market_by_token_id(db, token_id, gamma_up) ==
    LET gamma_market == fetch_market_by_token_id_from_gamma(token_id, gamma_up)
    IN IF gamma_market = NoGammaMarket
       THEN [db |-> db, market |-> NoMarket, commits |-> FALSE]
       ELSE LET r == process_market(db, gamma_market)
            IN [db |-> r.db, market |-> r.market, commits |-> TRUE]

\* fetch_market_by_token_id(conn, token_id): the first row with the token
\* as its yes or its no token, NoRow for None
fetch_market_by_token_id(db, token_id) ==
    LET rows == {i \in 1..Len(db.markets) :
                    \/ db.markets[i].yes_token_id = token_id
                    \/ db.markets[i].no_token_id = token_id}
    IN IF rows = {} THEN NoRow
       ELSE CHOOSE i \in rows : \A k \in rows : i <= k

\* the amounts read as for a BUY whatever the maker's asset is
determine_trade_details_buy(decoded) ==
    LET buy == decoded.maker_asset_id = 0
    IN [token_id |-> IF buy THEN decoded.taker_asset_id
                     ELSE decoded.maker_asset_id,
        side |-> IF buy THEN "BUY" ELSE "SELL",
        price |-> IF decoded.taker_amount_filled > 0
                  THEN [num |-> decoded.maker_amount_filled,
                        den |-> decoded.taker_amount_filled]
                  ELSE [num |-> 0, den |-> 1],
        size |-> decoded.taker_amount_filled]

(***************************************************************************)
(* The trade indexer (src/src/core/indexer.py)                             *)
(***************************************************************************)
\* determine_trade_details(decoded): maker asset 0 (USDC) is a BUY of the
\* taker asset, anything else a SELL of the maker asset
determine_trade_details(decoded) ==
    LET buy == decoded.maker_asset_id = 0
        usdc_amount == IF buy THEN decoded.maker_amount_filled
                       ELSE decoded.taker_amount_filled
        token_amount == IF buy THEN decoded.taker_amount_filled
                        ELSE decoded.maker_amount_filled
    IN [token_id |-> IF buy THEN decoded.taker_asset_id
                     ELSE decoded.maker_asset_id,
        side |-> IF buy THEN "BUY" ELSE "SELL",
        price |-> IF token_amount > 0
                  THEN [num |-> usdc_amount, den |-> token_amount]
                  ELSE [num |-> 0, den |-> 1],
        size |-> token_amount]

\* a labelling that takes every found market's token for its YES token
OutcomeOf_yes(market, token_id) ==
    IF market.no_token_id = token_id THEN "NO" ELSE "YES"

\* the outcome label of process_trade
OutcomeOf(market, token_id) ==
    IF market.yes_token_id = token_id THEN "YES"
    ELSE IF market.no_token_id = token_id THEN "NO"
    ELSE "UNKNOWN"

\* a scan that keeps no record of the tokens it tried
Remember_never(discovered_token_ids, token_id) == discovered_token_ids

\* discovered_token_ids.add(token_id)
Remember(discovered_token_ids, token_id) == discovered_token_ids \cup {token_id}

\* process_trade(conn, decoded, timestamp, discovered_token_ids).
\* db is the connection's view afterwards; when commits, mid is the state
\* that discovery committed (before the insert); called tells whether
\* insert_trade was reached, with its argument, the state it ran on and
\* its result.
process_trade(db, decoded, discovered_token_ids, gamma_up) ==
    LET d == determine_trade_details(decoded)
        found == fetch_market_by_token_id(db, d.token_id)
        tried == found = NoRow /\ d.token_id \in discovered_token_ids
        discovers == found = NoRow /\ ~tried
        disc == IF discovers
                THEN discover_market_by_token_id(db, d.token_id, gamma_up)
                ELSE [db |-> db, market |-> NoMarket, commits |-> FALSE]
        market == IF found # NoRow
                  THEN [id |-> found,
                        yes_token_id |-> db.markets[found].yes_token_id,
                        no_token_id |-> db.markets[found].no_token_id]
                  ELSE disc.market
        trade == [market_id |-> market.id, tx_hash |-> decoded.tx_hash,
                  log_index |-> decoded.log_index,
                  block_number |-> decoded.block_number,
                  side |-> d.side, outcome |-> OutcomeOf(market, d.token_id),
                  token_id |-> d.token_id, price |-> d.price, size |-> d.size]
        ins == insert_trade(disc.db, trade)
        memo == IF discovers
                THEN Remember(discovered_token_ids, d.token_id)
                ELSE discovered_token_ids
    IN IF market = NoMarket
       THEN [db |-> db, mid |-> db, commits |-> FALSE, memo |-> memo,
             saved |-> FALSE, unknown |-> TRUE, market_discovered |-> FALSE,
             discovers |-> discovers, called |-> FALSE, ret |-> NoRow]
       ELSE [db |-> ins.db, mid |-> disc.db, commits |-> disc.commits,
             memo |-> memo, saved |-> ins.ret # NoRow, unknown |-> FALSE,
             market_discovered |-> discovers, discovers |-> discovers,
             called |-> TRUE, ret |-> ins.ret]

\* the decoded OrderFilled logs of the chain (decode_order_filled_log): a
\* BUY of token 1 and a BUY of token 3 in one transaction of block 1, a
\* SELL of token 3 in block 2, a BUY of a token no market has in block 3
ChainLogs ==
    << [tx_hash |-> 1, log_index |-> 0, block_number |-> 1,
        maker_asset_id |-> 0, taker_asset_id |-> 1,
        maker_amount_filled |-> 500, taker_amount_filled |-> 1000],
       [tx_hash |-> 1, log_index |-> 1, block_number |-> 1,
        maker_asset_id |-> 0, taker_asset_id |-> 3,
        maker_amount_filled |-> 1500, taker_amount_filled |-> 3000],
       [tx_hash |-> 2, log_index |-> 0, block_number |-> 2,
        maker_asset_id |-> 3, taker_asset_id |-> 0,
        maker_amount_filled |-> 2000, taker_amount_filled |-> 1000],
       [tx_hash |-> 3, log_index |-> 0, block_number |-> 3,
        maker_asset_id |-> 0, taker_asset_id |-> 9,
        maker_amount_filled |-> 1000, taker_amount_filled |-> 2000] >>

\* the orders in which the provider's get_logs may list them
ChainOrders ==
    { ChainLogs,
      <<ChainLogs[2], ChainLogs[1], ChainLogs[3], ChainLogs[4]>> }

\* the databases an indexer may start on: a fresh one (init_db), and one
\* in which market discovery has stored market 1
SeededDb == process_market(EmptyDb, CHOOSE m \in GammaMarkets : m.conditionId = 1).db

IdleRun ==
    [pc |-> "idle", to_block |-> 0, batch_size |-> 1, current_block |-> 0,
     batch_end |-> 0, block_num |-> 0, queue |-> <<>>,
     discovered_token_ids |-> {}, block_timestamp_cache |-> {}]

NoInsert ==
    [op |-> "none", before |-> EmptyDb, after |-> EmptyDb, tx_hash |-> 0,
     log_index |-> 0, ret |-> NoRow]

IdxInitReal ==
    /\ committed \in {EmptyDb, SeededDb}
    /\ view = committed
    /\ chain \in ChainOrders
    /\ run = IdleRun
    /\ hist = <<>>
    /\ scanned = {}
    /\ lastCall = NoInsert

\* the record of the invocation in progress (the last one made)
Cur == hist[Len(hist)]

Invocation(kind, from_block, to_block, status) ==
    [kind |-> kind, from_block |-> from_block, to_block |-> to_block,
     status |-> status, before |-> committed, after |-> committed,
     clean |-> TRUE, fetched |-> {}, inserted_trades |-> 0,
     unknown_tokens |-> 0, discovered |-> <<>>, unknown_logs |-> {}]

\* the set of fetched blocks is recorded for the last invocation only
Forget(h) ==
    [i \in 1..Len(h) |->
        [h[i] EXCEPT !.fetched = {}, !.discovered = <<>>, !.unknown_logs = {}]]

\* run_indexer up to the first iteration of its while loop
StartScan(kind, from_block, to_block, batch_size) ==
    /\ run' = [IdleRun EXCEPT !.pc = "fetch", !.to_block = to_block,
                              !.batch_size = batch_size,
                              !.current_block = from_block]
    /\ hist' = Append(Forget(hist),
                      Invocation(kind, from_block, to_block, "running"))

\* run_indexer(conn, from_block, to_block, batch_size)
RunIndexer(from_block, to_block, batch_size) ==
    /\ run.pc = "idle"
    /\ Len(hist) < MaxRuns
    /\ from_block <= to_block
    /\ StartScan("run_indexer", from_block, to_block, batch_size)
    /\ UNCHANGED <<committed, view, scanned, chain, lastCall>>

\* sync_trades(conn, to_block, batch_size): ValueError without a cursor,
\* "Already synced" when from_block > to_block, run_indexer otherwise
SyncTrades(to_block, batch_size) ==
    /\ run.pc = "idle"
    /\ Len(hist) < MaxRuns
    /\ LET last_block == get_sync_state(view)
           from_block == last_block + 1
       IN IF last_block = NoRow
          THEN /\ hist' = Append(Forget(hist),
                        Invocation("sync_trades", NoRow, to_block, "raised"))
               /\ UNCHANGED run
          ELSE IF from_block > to_block
          THEN /\ hist' = Append(Forget(hist),
                        Invocation("sync_trades", from_block, to_block, "done"))
               /\ UNCHANGED run
          ELSE StartScan("sync_trades", from_block, to_block, batch_size)
    /\ UNCHANGED <<committed, view, scanned, chain, lastCall>>

\* current_block = batch_end + 1 and the test of the while loop; after the
\* loop run_indexer returns
NextBatch(r, h, db) ==
    IF r.batch_end + 1 > r.to_block
    THEN /\ run' = IdleRun
         /\ hist' = [hist EXCEPT ![Len(hist)] =
                        [h EXCEPT !.status = "done", !.after = db]]
    ELSE /\ run' = [r EXCEPT !.pc = "fetch", !.current_block = r.batch_end + 1]
         /\ hist' = [hist EXCEPT ![Len(hist)] = h]

InBlocks(lo, hi) ==
    SelectSeq(chain, LAMBDA l : l.block_number >= lo /\ l.block_number <= hi)

\* one iteration's fetch_logs_with_retry: the logs of the batch, or the
\* exception of the last retry, after which the batch is skipped
FetchLogs(rpc_ok) ==
    /\ run.pc = "fetch"
    /\ LET batch_end == Min2(run.current_block + run.batch_size - 1, run.to_block)
           r == [run EXCEPT !.batch_end = batch_end]
       IN IF rpc_ok
          THEN /\ run' = [r EXCEPT !.pc = "block",
                                   !.block_num = run.current_block,
                                   !.queue = InBlocks(run.current_block, batch_end)]
               /\ hist' = [hist EXCEPT ![Len(hist)].fetched =
                                @ \cup (run.current_block..batch_end)]
          ELSE NextBatch(r, [Cur EXCEPT !.clean = FALSE], committed)
    /\ UNCHANGED <<committed, view, scanned, chain, lastCall>>

\* positions in the fetched batch of the logs of block block_num still to
\* be processed
BlockLogs == {i \in 1..Len(run.queue) : run.queue[i].block_number = run.block_num}

Without(q, i) == [k \in 1..(Len(q) - 1) |-> IF k < i THEN q[k] ELSE q[k + 1]]

\* the body of "for log in block_logs": get_block_timestamp (an RPC call
\* unless the block is cached), process_trade, the counters; an exception
\* is logged and the log left
ProcessLog(ts_ok, gamma_up) ==
    /\ run.pc = "block"
    /\ BlockLogs # {}
    /\ LET i == CHOOSE k \in BlockLogs : \A m \in BlockLogs : k <= m
           log == run.queue[i]
           cached == run.block_num \in run.block_timestamp_cache
           r == process_trade(view, log, run.discovered_token_ids, gamma_up)
       IN IF ~cached /\ ~ts_ok
          THEN /\ run' = [run EXCEPT !.queue = Without(@, i)]
               /\ hist' = [hist EXCEPT ![Len(hist)].clean = FALSE]
               /\ UNCHANGED <<committed, view, lastCall>>
          ELSE /\ run' = [run EXCEPT
                            !.queue = Without(@, i),
                            !.block_timestamp_cache = @ \cup {run.block_num},
                            !.discovered_token_ids = r.memo]
               /\ view' = r.db
               /\ committed' = IF r.commits THEN r.mid ELSE committed
               /\ hist' = [hist EXCEPT ![Len(hist)] =
                     [Cur EXCEPT
                        !.clean = @ /\ (gamma_up \/ ~r.discovers),
                        !.inserted_trades = IF r.saved THEN @ + 1 ELSE @,
                        !.unknown_tokens = IF r.unknown THEN @ + 1 ELSE @,
                        !.discovered =
                            IF r.discovers
                            THEN Append(@, determine_trade_details(log).token_id)
                            ELSE @,
                        !.unknown_logs = IF r.unknown THEN @ \cup {log} ELSE @]]
               /\ lastCall' = IF r.called
                              THEN [op |-> "insert_trade", before |-> r.mid,
                                    after |-> r.db, tx_hash |-> log.tx_hash,
                                    log_index |-> log.log_index, ret |-> r.ret]
                              ELSE lastCall
    /\ UNCHANGED <<scanned, chain>>

\* set_sync_state(conn, "trade_sync", block_num), which commits; then the
\* next block of the batch, or the next batch
Checkpoint ==
    /\ run.pc = "block"
    /\ BlockLogs = {}
    /\ view' = set_sync_state(view, run.block_num)
    /\ committed' = view'
    /\ scanned' = scanned \cup
            {l \in Range(chain) : l.block_number = run.block_num}
    /\ IF run.block_num < run.batch_end
       THEN /\ run' = [run EXCEPT !.block_num = @ + 1]
            /\ UNCHANGED hist
       ELSE NextBatch(run, Cur, committed')
    /\ UNCHANGED <<chain, lastCall>>

\* the process is killed: the connection's open transaction is gone
Crash ==
    /\ run.pc \in {"fetch", "block"}
    /\ run' = IdleRun
    /\ view' = committed
    /\ hist' = [hist EXCEPT ![Len(hist)].status = "killed",
                            ![Len(hist)].after = committed]
    /\ UNCHANGED <<committed, scanned, chain, lastCall>>

IdxNext ==
    /\ \/ \E f, t \in 1..MaxBlock, bs \in 1..MaxBatch : RunIndexer(f, t, bs)
       \/ \E t \in 1..MaxBlock, bs \in 1..MaxBatch : SyncTrades(t, bs)
       \/ \E ok \in BOOLEAN : FetchLogs(ok)
       \/ \E ts_ok, gamma_up \in BOOLEAN : ProcessLog(ts_ok, gamma_up)
       \/ Checkpoint
       \/ Crash
    /\ UNCHANGED <<schedVars, wsVars>>

IdxSpecInit == SchedInit /\ WsInit /\ IdxInitReal

SpecIdx == IdxSpecInit /\ [][IdxNext]_vars

\* the steps of the run_indexer call in progress
ScanStep ==
    /\ \/ \E ok \in BOOLEAN : FetchLogs(ok)
       \/ \E ts_ok, gamma_up \in BOOLEAN : ProcessLog(ts_ok, gamma_up)
       \/ Checkpoint
    /\ UNCHANGED <<schedVars, wsVars>>

\* one run_indexer call on a database with or without a cursor, every
\* RPC, Gamma and database call of the scan returning or raising (the
\* calls carry timeouts and a bounded number of retries)
ScanInit ==
    /\ SchedInit /\ WsInit
    /\ committed \in {EmptyDb, SeededDb, set_sync_state(SeededDb, MaxBlock)}
    /\ view = committed
    /\ chain \in ChainOrders
    /\ run = IdleRun
    /\ hist = <<>>
    /\ scanned = {}
    /\ lastCall = NoInsert

ScanNext ==
    \/ /\ hist = <<>>
       /\ \E f, t \in 1..MaxBlock, bs \in 1..MaxBatch : RunIndexer(f, t, bs)
       /\ UNCHANGED <<schedVars, wsVars>>
    \/ ScanStep

SpecScan == ScanInit /\ [][ScanNext]_vars /\ WF_vars(ScanStep)

(***************************************************************************)
(* Properties of the indexer and the store                                 *)
(***************************************************************************)
NoDuplicateKeys(rows) ==
    \A i, k \in 1..Len(rows) :
        (rows[i].tx_hash = rows[k].tx_hash /\ rows[i].log_index = rows[k].log_index)
            => i = k

\* C2: in every committed state trade_sync is at least the block_number of
\* every committed trade.
C2_CursorCoversCommitted ==
    \A i \in 1..Len(committed.trades) :
        committed.trades[i].block_number <= committed.trade_sync

\* the log's token resolves to a market: the table has one, or Gamma does
Resolves(l) ==
    LET token_id == determine_trade_details(l).token_id
    IN \/ fetch_market_by_token_id(committed, token_id) # NoRow
       \/ fetch_market_by_token_id_from_gamma(token_id, TRUE) # NoGammaMarket

\* C3: whenever trade_sync = b is committed, every log of a block <= b
\* that an invocation scanned and checkpointed, and whose token resolves
\* to a market, has its trade row, whatever the RPC calls did.
C3_AtLeastOnce ==
    \A l \in scanned :
        (l.block_number <= committed.trade_sync /\ Resolves(l))
            => HasKey(committed.trades, l.tx_hash, l.log_index)

RECURSIVE OrderedLogs(_, _)
\* the logs of blocks lo..hi in the order run_indexer processes them
OrderedLogs(lo, hi) ==
    IF lo > hi THEN <<>> ELSE InBlocks(lo, lo) \o OrderedLogs(lo + 1, hi)

RECURSIVE ScanLogs(_, _, _)
\* process_trade over the logs, no call failing
ScanLogs(db, memo, logs) ==
    IF logs = <<>> THEN db
    ELSE LET r == process_trade(db, Head(logs), memo, TRUE)
         IN ScanLogs(r.db, r.memo, Tail(logs))

\* the database after run_indexer(from_block, to_block) on db, no call
\* failing and the process running to the end
Uninterrupted(db, from_block, to_block) ==
    set_sync_state(ScanLogs(db, {}, OrderedLogs(from_block, to_block)), to_block)

\* C4: a scan of [from, to] that is killed and then resumed by sync_trades
\* up to the same to_block (no RPC or Gamma call failing) ends with the
\* trades of the uninterrupted scan, no duplicate rows and trade_sync = to.
C4_CrashRestartEqualsUninterrupted ==
    LET n == Len(hist)
    IN (/\ n >= 2
        /\ hist[n].kind = "sync_trades" /\ hist[n].status = "done"
        /\ hist[n - 1].status = "killed"
        /\ hist[n].to_block = hist[n - 1].to_block
        /\ hist[n].clean /\ hist[n - 1].clean)
       => LET whole == Uninterrupted(hist[n - 1].before,
                                     hist[n - 1].from_block, hist[n].to_block)
          IN /\ Range(hist[n].after.trades) = Range(whole.trades)
             /\ NoDuplicateKeys(hist[n].after.trades)
             /\ hist[n].after.trade_sync = hist[n].to_block

TradeCounts(db) == [i \in 1..Len(db.markets) |-> db.markets[i].trade_count]

\* two run_indexer invocations over the same [from, to], one after the
\* other, both run to the end and both served all their RPC and Gamma
\* calls (the same chain logs, the same Gamma data)
RanTwice ==
    LET n == Len(hist)
    IN /\ n >= 2
       /\ hist[n].kind = "run_indexer" /\ hist[n].status = "done"
       /\ hist[n - 1].kind = "run_indexer" /\ hist[n - 1].status = "done"
       /\ hist[n].from_block = hist[n - 1].from_block
       /\ hist[n].to_block = hist[n - 1].to_block
       /\ hist[n - 1].clean /\ hist[n].clean

C10_UniqueKeyDuplicateIgnored ==
    /\ NoDuplicateKeys(view.trades)
    /\ NoDuplicateKeys(committed.trades)
    /\ (/\ lastCall.op = "insert_trade"
        /\ HasKey(lastCall.before.trades, lastCall.tx_hash, lastCall.log_index))
       => /\ lastCall.ret = NoRow
          /\ lastCall.after.trades = lastCall.before.trades
          /\ TradeCounts(lastCall.after) = TradeCounts(lastCall.before)

\* a rescan has called insert_trade with the key of a stored trade
C10_Witness ==
    /\ lastCall.op = "insert_trade"
    /\ HasKey(lastCall.before.trades, lastCall.tx_hash, lastCall.log_index)
    /\ lastCall.ret = NoRow
    /\ Len(view.trades) >= 2

\* C11: every sync_job that set is_syncing resets it, whether its steps
\* complete or one raises; a call whose step raised has recorded an error
\* in last_sync_result; and is_syncing is true only while a body runs, so
\* the next tick starts a sync.
C11_FlagAlwaysReset ==
    /\ \A t \in Tasks : (InBody(t) ~> ~InBody(t))
    /\ (is_syncing ~> ~is_syncing)
    /\ [](is_syncing <=> \E t \in Tasks : InBody(t))
    /\ [](\A t \in Tasks :
            (job[t].pc = "done" /\ job[t].raised)
                => (job[t].ret.set /\ job[t].ret.error))

\* a call ended by an exception, and a later tick is running its sync
C11_Witness ==
    \E t, u \in Tasks :
        /\ job[t].pc = "done" /\ job[t].raised /\ job[t].ret.error
        /\ job[u].kind = "tick" /\ job[u].pc = "refresh" /\ ~job[u].sawSyncing
        /\ sync_count = 2

\* the blocks of the invocation in progress whose checkpoint is due: those
\* of the fetched batches, up to the block being processed
Checkpointed ==
    IF run.pc = "block"
    THEN {b \in Cur.fetched : b < run.block_num}
    ELSE Cur.fetched

\* C12: a run_indexer call ends; the cursor stands at the last block of
\* the fetched batches that the scan has gone through, whatever happened
\* to the logs of that block; and when every fetch succeeded the call
\* returns with trade_sync = to_block.
C12_ScanTerminatesAndAdvances ==
    /\ (run.pc # "idle") ~> (run.pc = "idle")
    /\ [](hist # <<>> =>
            /\ (Cur.status = "running" /\ Checkpointed # {})
                  => /\ committed.trade_sync = Max(Checkpointed)
                     /\ view.trade_sync = Max(Checkpointed)
            /\ (Cur.status = "done" /\ Cur.fetched # {})
                  => Cur.after.trade_sync = Max(Cur.fetched)
            /\ (/\ Cur.status = "done"
                /\ Cur.from_block <= Cur.to_block
                /\ Cur.fetched = Cur.from_block..Cur.to_block)
                  => Cur.after.trade_sync = Cur.to_block)

\* a scan of blocks 1..2 returned with the cursor at 2 and no trade: the
\* logs of both blocks were fetched and none of them could be processed
C12_Witness ==
    /\ hist # <<>>
    /\ Cur.status = "done" /\ Cur.kind = "run_indexer"
    /\ Cur.from_block = 1 /\ Cur.to_block = 2
    /\ Cur.fetched = {1, 2}
    /\ Cur.after.trades = <<>>
    /\ Cur.after.trade_sync = 2

\* SELECT COUNT(*) FROM trades WHERE trades.market_id = markets.id
TradesOf(db, market_id) ==
    Cardinality({i \in 1..Len(db.trades) : db.trades[i].market_id = market_id})

\* the trade_count repair of migrate_db: every market that has trades gets
\* their number as its trade_count
migrate_db(db) ==
    [db EXCEPT !.markets =
        [i \in 1..Len(db.markets) |->
            IF TradesOf(db, i) > 0
            THEN [db.markets[i] EXCEPT !.trade_count = TradesOf(db, i)]
            ELSE db.markets[i]]]

\* C13: in every committed state each market's trade_count is the number
\* of trades of that market (so the repair of migrate_db changes nothing),
\* and the same holds inside the indexer's open transaction.
C13_TradeCountMatches ==
    /\ \A i \in 1..Len(committed.markets) :
          committed.markets[i].trade_count = TradesOf(committed, i)
    /\ \A i \in 1..Len(view.markets) :
          view.markets[i].trade_count = TradesOf(view, i)
    /\ migrate_db(committed) = committed

\* after a killed scan and a rescan that met stored keys, a market
\* discovered on demand has two committed trades
C13_Witness ==
    /\ \E n \in 1..Len(hist) : hist[n].status = "killed"
    /\ lastCall.op = "insert_trade" /\ lastCall.ret = NoRow
    /\ \E i \in 1..Len(committed.markets) :
          /\ committed.markets[i].trade_count = 2
          /\ committed.markets[i].condition_id = 2

UpsertArgs ==
    { [condition_id |-> 1, event_id |-> e, yes_token_id |-> tk[1],
       no_token_id |-> tk[2], status |-> st, archived |-> NoRow,
       closed |-> c, active |-> a, sync_warning |-> w] :
        e \in {NoRow, 1}, tk \in {<<NoRow, NoRow>>, <<1, 2>>},
        st \in {"", "closed"}, c \in {NoRow, 1}, a \in {NoRow, 0, 1},
        w \in BOOLEAN }

NoUpsert ==
    [op |-> "none", before |-> EmptyDb, arg |-> CHOOSE m \in UpsertArgs : TRUE,
     ret |-> NoRow, updated |-> FALSE]

UpsertInit ==
    /\ SchedInit /\ WsInit /\ IdxInit
    /\ committed = EmptyDb
    /\ view = EmptyDb
    /\ lastCall = NoUpsert

\* one call upsert_market(conn, market), commit included
UpsertMarket(market) ==
    LET r == upsert_market(committed, market)
    IN /\ committed' = r.db
       /\ view' = r.db
       /\ lastCall' = [op |-> "upsert_market", before |-> committed,
                       arg |-> market, ret |-> r.ret,
                       updated |-> Len(committed.markets) > 0]
       /\ UNCHANGED <<schedVars, wsVars, idxVars>>

UpsertNext == \E market \in UpsertArgs : UpsertMarket(market)

SpecUpsert == UpsertInit /\ [][UpsertNext]_vars

\* the record carries nothing a status could come from
NoStatusKeys(market) ==
    /\ market.status = "" /\ market.archived = NoRow
    /\ market.closed = NoRow /\ market.active = NoRow

\* C15: an upsert_market that met an existing row leaves every column
\* whose incoming value is null or missing at its stored value.
C15_NullKeepsStored ==
    (lastCall.op = "upsert_market" /\ lastCall.updated) =>
        LET old == lastCall.before.markets[lastCall.ret]
            new == committed.markets[lastCall.ret]
            market == lastCall.arg
        IN /\ market.event_id = NoRow => new.event_id = old.event_id
           /\ market.yes_token_id = NoRow => new.yes_token_id = old.yes_token_id
           /\ market.no_token_id = NoRow => new.no_token_id = old.no_token_id
           /\ NoStatusKeys(market) => new.status = old.status
           /\ ~market.sync_warning => new.sync_warning = old.sync_warning
           /\ new.trade_count = old.trade_count
           /\ new.condition_id = old.condition_id

\* C16: a tail call with a threshold lower than that of the tail call just
\* before it returns no trade that the earlier call saw and found not above
\* its threshold, and no step modifies or deletes a whale_trades row.
C16_NoRetroactiveEmission ==
    /\ [](( /\ lastCall.op = "tail" /\ lastCall.prevOp = "tail"
            /\ lastCall.theta < lastCall.prevTheta )
            => \A n \in 1..Len(lastCall.ret) :
                  IsWhale(lastCall.before.trades[lastCall.ret[n]],
                          lastCall.prevTheta))
    /\ [][ /\ Len(committed'.whale_trades) >= Len(committed.whale_trades)
           /\ \A i \in 1..Len(committed.whale_trades) :
                 committed'.whale_trades[i] = committed.whale_trades[i] ]_vars

\* C17: once the scheduler is stopped no tick enters sync_job, and every
\* sync_job that entered its body ends through the end of its try block or
\* its except handler, with its result written, also when stop() was
\* called while it was in flight.
C17_StopSuppressesTicksKeepsSync ==
    /\ [][ ~running =>
             \A t \in Tasks :
                (job[t].pc = "idle" /\ job'[t].pc # "idle")
                    => job'[t].kind # "tick" ]_vars
    /\ [](\A t \in Tasks :
             (job[t].pc = "done" /\ ~job[t].sawSyncing) => job[t].ret.set)

(***************************************************************************)
(* process_trade on its own: decoded OrderFilled logs of any shape, one    *)
(* at a time, on a database that holds market 1                            *)
(***************************************************************************)
MaxFills == 2

\* decode_order_filled_log of the logs tried: either asset may be 0 (USDC),
\* token 1 or 2 of market 1 or token 9 of no market, either amount may be 0
DecodedFills ==
    { [maker_asset_id |-> ma, taker_asset_id |-> ta,
       maker_amount_filled |-> mf, taker_amount_filled |-> tf] :
        ma \in {0, 2}, ta \in {0, 1, 9}, mf \in {0, 500}, tf \in {0, 1000} }

Fill(db, f) ==
    [tx_hash |-> 10 + Len(db.trades), log_index |-> 0, block_number |-> 1,
     maker_asset_id |-> f.maker_asset_id, taker_asset_id |-> f.taker_asset_id,
     maker_amount_filled |-> f.maker_amount_filled,
     taker_amount_filled |-> f.taker_amount_filled]

NoFill ==
    [op |-> "none", decoded |-> Fill(EmptyDb, CHOOSE f \in DecodedFills : TRUE),
     details |-> determine_trade_details(
                    Fill(EmptyDb, CHOOSE f \in DecodedFills : TRUE)),
     before |-> EmptyDb, saved |-> FALSE]

FillInit ==
    /\ SchedInit /\ WsInit /\ IdxInit
    /\ committed = SeededDb
    /\ view = SeededDb
    /\ lastCall = NoFill

\* process_trade(conn, decoded, timestamp, set()) and the commit of the
\* block's checkpoint
ProcessFill(f) ==
    LET decoded == Fill(committed, f)
        r == process_trade(committed, decoded, {}, TRUE)
    IN /\ Len(committed.trades) < MaxFills
       /\ committed' = r.db
       /\ view' = r.db
       /\ lastCall' = [op |-> "process_trade", decoded |-> decoded,
                       details |-> determine_trade_details(decoded),
                       before |-> committed, saved |-> r.saved]
       /\ UNCHANGED <<schedVars, wsVars, idxVars>>

FillNext == \E f \in DecodedFills : ProcessFill(f)

SpecFill == FillInit /\ [][FillNext]_vars

\* C18: the details are those of a BUY of the taker asset (USDC amount the
\* maker's, token amount the taker's) exactly when the maker asset is 0,
\* and otherwise those of a SELL of the maker asset (USDC amount the
\* taker's, token amount the maker's); a log whose token amount is 0 gets
\* price 0 and is stored as a trade when a market has its token.
C18_TradeDetails ==
    lastCall.op = "process_trade" =>
        LET d == lastCall.decoded
            r == lastCall.details
            b == lastCall.before
            IsBuy == /\ r.side = "BUY" /\ r.token_id = d.taker_asset_id
                     /\ r.size = d.taker_amount_filled
                     /\ r.size > 0 =>
                           r.price.num * d.taker_amount_filled
                              = d.maker_amount_filled * r.price.den
            IsSell == /\ r.side = "SELL" /\ r.token_id = d.maker_asset_id
                      /\ r.size = d.maker_amount_filled
                      /\ r.size > 0 =>
                            r.price.num * d.maker_amount_filled
                               = d.taker_amount_filled * r.price.den
        IN /\ IsBuy <=> d.maker_asset_id = 0
           /\ d.maker_asset_id # 0 => IsSell
           /\ r.size = 0 =>
                 /\ r.price.num = 0
                 /\ fetch_market_by_token_id(b, r.token_id) # NoRow =>
                       /\ lastCall.saved
                       /\ Len(committed.trades) = Len(b.trades) + 1
                       /\ committed.trades[Len(committed.trades)].tx_hash
                             = d.tx_hash
                       /\ committed.trades[Len(committed.trades)].price.num = 0

\* a SELL of token 2 with maker amount 0 was stored with price 0, after a
\* BUY of token 1 with taker amount 0
C18_Witness ==
    /\ lastCall.op = "process_trade"
    /\ lastCall.details.side = "SELL"
    /\ lastCall.details.size = 0
    /\ lastCall.decoded.taker_amount_filled = 1000
    /\ lastCall.saved
    /\ Len(committed.trades) = 2
    /\ committed.trades[1].side = "BUY" /\ committed.trades[1].size = 0
    /\ committed.trades[2].outcome = "NO" /\ committed.trades[2].price.num = 0

(***************************************************************************)
(* MarketMetrics.calculate_buy_sell_ratio (src/src/core/metrics.py): the   *)
(* arithmetic on the two volumes the query returned                        *)
(***************************************************************************)
MaxVolume == 10

\* round(n / d, k) once n carries the factor 10^k: the nearest integer,
\* a tie going to the even one
RoundDiv(n, d) ==
    LET q == n \div d
        r == n % d
    IN IF 2 * r < d THEN q
       ELSE IF 2 * r > d THEN q + 1
       ELSE IF q % 2 = 0 THEN q ELSE q + 1

\* a result that reports a ratio also when there are no trades at all
calculate_buy_sell_ratio_null(buy_volume, sell_volume) ==
    LET total_volume == buy_volume + sell_volume
    IN [ratio_null |-> sell_volume = 0,
        ratio_hundredths |-> IF sell_volume > 0
                             THEN RoundDiv(100 * buy_volume, sell_volume) ELSE 0,
        buy_pct_tenths |-> IF total_volume > 0
                           THEN RoundDiv(1000 * buy_volume, total_volume)
                           ELSE 500]

\* ratio = buy / sell if sell > 0 else inf if buy > 0 else 1.0;
\* buy_pct = buy / total * 100 if total > 0 else 50.0;
\* buy_sell_ratio: round(ratio, 2), None for inf (in hundredths);
\* buy_percentage: round(buy_pct, 1) (in tenths)
calculate_buy_sell_ratio(buy_volume, sell_volume) ==
    LET total_volume == buy_volume + sell_volume
        inf == sell_volume = 0 /\ buy_volume > 0
    IN [ratio_null |-> inf,
        ratio_hundredths |-> IF sell_volume > 0
                             THEN RoundDiv(100 * buy_volume, sell_volume)
                             ELSE IF inf THEN 0 ELSE 100,
        buy_pct_tenths |-> IF total_volume > 0
                           THEN RoundDiv(1000 * buy_volume, total_volume)
                           ELSE 500]

NoRatio ==
    [op |-> "none", buy_volume |-> 0, sell_volume |-> 0,
     ret |-> [ratio_null |-> FALSE, ratio_hundredths |-> 0, buy_pct_tenths |-> 0]]

RatioInit ==
    /\ SchedInit /\ WsInit /\ IdxInit /\ DbInit
    /\ lastCall = NoRatio

\* one call with the volumes SUM(price * size) gave for BUY and for SELL
CalculateRatio(buy_volume, sell_volume) ==
    /\ lastCall' = [op |-> "calculate_buy_sell_ratio",
                    buy_volume |-> buy_volume, sell_volume |-> sell_volume,
                    ret |-> calculate_buy_sell_ratio(buy_volume, sell_volume)]
    /\ UNCHANGED <<schedVars, wsVars, dbVars, idxVars>>

RatioNext ==
    \E buy_volume, sell_volume \in 0..MaxVolume :
        CalculateRatio(buy_volume, sell_volume)

SpecRatio == RatioInit /\ [][RatioNext]_vars

\* C19 as stated: buy_sell_ratio is null and buy_percentage 100 when
\* sell_volume is 0 and buy_volume > 0; buy_sell_ratio is null when both
\* are 0; otherwise buy_sell_ratio is buy_volume / sell_volume and
\* buy_percentage is buy_volume / (buy_volume + sell_volume) x 100.
C19_RatioAsStated ==
    lastCall.op = "calculate_buy_sell_ratio" =>
        LET b == lastCall.buy_volume
            s == lastCall.sell_volume
            r == lastCall.ret
        IN /\ (s = 0 /\ b > 0) => (r.ratio_null /\ r.buy_pct_tenths = 1000)
           /\ (s = 0 /\ b = 0) => r.ratio_null
           /\ s > 0 => /\ ~r.ratio_null
                        /\ r.ratio_hundredths * s = 100 * b
                        /\ r.buy_pct_tenths * (b + s) = 1000 * b

\* C19 amended: with both volumes 0 the ratio reported is 1.0 and the
\* percentage 50.0; with sell_volume > 0 the ratio is buy / sell to the
\* nearest hundredth and the percentage buy / (buy + sell) x 100 to the
\* nearest tenth.
C19_RatioAmended ==
    lastCall.op = "calculate_buy_sell_ratio" =>
        LET b == lastCall.buy_volume
            s == lastCall.sell_volume
            r == lastCall.ret
            Dist(x, y) == IF x >= y THEN x - y ELSE y - x
        IN /\ (s = 0 /\ b > 0) => (r.ratio_null /\ r.buy_pct_tenths = 1000)
           /\ (s = 0 /\ b = 0) => /\ ~r.ratio_null
                                    /\ r.ratio_hundredths = 100
                                    /\ r.buy_pct_tenths = 500
           /\ s > 0 => /\ ~r.ratio_null
                        /\ 2 * Dist(r.ratio_hundredths * s, 100 * b) <= s
                        /\ 2 * Dist(r.buy_pct_tenths * (b + s), 1000 * b)
                              <= b + s

\* calls with no trades at all, with buys only, and with a ratio that
\* has no exact two-decimal value
C19_Witness ==
    /\ lastCall.op = "calculate_buy_sell_ratio"
    /\ lastCall.buy_volume = 0 /\ lastCall.sell_volume = 0
    /\ lastCall.ret.ratio_hundredths = 100

\* the pipeline steps of sync_job in program order
StepOrder == <<"sync", "refresh", "traders", "detect", "notify">>

\* C21: in each sync_job run a step has run only after all the steps
\* before it; detect_new_whales ran only when the trade sync of the run
\* inserted a trade; the whales it returned are in ascending trade id
\* order, the notifier was handed them in that order, each once, and a run
\* that has ended has handed over every one of them.
C21_PipelineOrder ==
    \A t \in Tasks :
        LET j == job[t]
        IN /\ \A n \in 2..4 :
                 StepOrder[n] \in j.steps => StepOrder[n - 1] \in j.steps
           /\ "notify" \in j.steps => "detect" \in j.steps
           /\ "detect" \in j.steps => j.inserted > 0
           /\ \A a, b \in 1..Len(j.returned) :
                 a < b => j.returned[a] < j.returned[b]
           /\ Len(j.sent) <= Len(j.returned)
           /\ \A n \in 1..Len(j.sent) : j.sent[n] = j.returned[n]
           /\ j.pc = "done" => j.sent = j.returned

\* C22: of any two trades the invocation in progress (or the last one)
\* inserted, the one with the smaller (block_number, log_index) has the
\* smaller id.
C22_PersistedInLogOrder ==
    hist # <<>> =>
        \A i, j \in (Len(Cur.before.trades) + 1)..Len(view.trades) :
            LET a == view.trades[i]
                b == view.trades[j]
            IN ( \/ a.block_number < b.block_number
                 \/ /\ a.block_number = b.block_number
                    /\ a.log_index < b.log_index ) => i < j

C24_ThresholdInclusive ==
    lastCall.op = "tail" =>
        LET b == lastCall.before
            since == IF b.whale_sync = NoRow THEN 0 ELSE b.whale_sync
        IN \A id \in 1..Len(b.trades) :
              ( /\ id > since
                /\ b.trades[id].price.num * b.trades[id].size
                      >= lastCall.theta * b.trades[id].price.den )
              => /\ id \in Range(lastCall.ret)
                 /\ HasKey(committed.whale_trades,
                           b.trades[id].tx_hash, b.trades[id].log_index)

\* C25: no commit lowers trade_sync (no row counting as below every
\* block).
C25_CursorMonotonic ==
    [][committed'.trade_sync >= committed.trade_sync]_vars

(***************************************************************************)
(* Specification SpecDetect: detect_new_whales calls on separate           *)
(* connections, statement by statement, while the indexer commits trades   *)
(* and backfills run.  The two SELECTs of a call run outside a             *)
(* transaction (sqlite3 opens one before the first INSERT only); the       *)
(* INSERTs, the whale_sync write and the commit hold the write lock and    *)
(* are one step.                                                           *)
(***************************************************************************)
NumDetectors == 2

\* detect_new_whales calls per connection
MaxDetects == 2

Detectors == 1..NumDetectors

IdleDetector == [pc |-> "idle", since |-> 0, ids |-> <<>>, calls |-> 0]

\* det: the calls in flight; returned: the lists the calls returned so far,
\* concatenated
NoDetect ==
    [det |-> [d \in Detectors |-> IdleDetector], returned |-> <<>>]

DetectInit ==
    /\ SchedInit /\ WsInit /\ IdxInit /\ DbInit
    /\ lastCall = NoDetect

\* the indexer inserts and commits one trade
DetectCommitTrade(usdc, tokens) ==
    /\ Len(committed.trades) < MaxTrades
    /\ committed' = insert_trade(committed, NewTrade(committed, usdc, tokens)).db
    /\ view' = committed'
    /\ UNCHANGED lastCall

\* WhaleDetector(db).detect_from_trades()
DetectBackfill ==
    /\ committed' = detect_from_trades(committed, WHALE_THRESHOLD).db
    /\ committed' # committed
    /\ view' = committed'
    /\ UNCHANGED lastCall

\* SELECT last_block FROM sync_state WHERE key = 'whale_sync'
DetectReadCursor(d) ==
    /\ lastCall.det[d].pc = "idle"
    /\ lastCall.det[d].calls < MaxDetects
    /\ lastCall' = [lastCall EXCEPT !.det[d] =
                      [pc |-> "read", since |-> SinceTradeId(committed),
                       ids |-> <<>>, calls |-> @.calls + 1]]
    /\ UNCHANGED <<committed, view>>

\* SELECT ... WHERE t.id > ? AND (t.price * t.size) > ? ORDER BY t.id ASC
DetectSelect(d) ==
    /\ lastCall.det[d].pc = "read"
    /\ lastCall' = [lastCall EXCEPT
                      !.det[d].pc = "selected",
                      !.det[d].ids =
                         Ascending({i \in 1..Len(committed.trades) :
                                      /\ i > lastCall.det[d].since
                                      /\ IsWhale(committed.trades[i],
                                                 WHALE_THRESHOLD)})]
    /\ UNCHANGED <<committed, view>>

\* the INSERT OR IGNOREs, the whale_sync write, conn.commit() and the return
DetectWrite(d) ==
    /\ lastCall.det[d].pc = "selected"
    /\ committed' = [committed EXCEPT
                       !.whale_trades =
                          InsertWhales(@, committed.trades,
                                       lastCall.det[d].ids, WHALE_THRESHOLD),
                       !.whale_sync =
                          WhaleSyncAfter(committed, lastCall.det[d].ids)]
    /\ view' = committed'
    /\ lastCall' = [lastCall EXCEPT
                      !.det[d].pc = "idle",
                      !.returned = @ \o lastCall.det[d].ids]

DetectNext ==
    /\ \/ \E a \in WhaleAmounts : DetectCommitTrade(a[1], a[2])
       \/ DetectBackfill
       \/ \E d \in Detectors : DetectReadCursor(d)
       \/ \E d \in Detectors : DetectSelect(d)
       \/ \E d \in Detectors : DetectWrite(d)
    /\ UNCHANGED <<schedVars, wsVars, idxVars>>

SpecDetect == DetectInit /\ [][DetectNext]_vars

\* C26: no trade id is returned by two detect_new_whales calls (or twice by
\* one), and no step lowers whale_sync.
C26_ReturnedOnceCursorMonotonic ==
    /\ [](\A a, b \in 1..Len(lastCall.returned) :
             a # b => lastCall.returned[a] # lastCall.returned[b])
    /\ [][SinceTradeId(committed') >= SinceTradeId(committed)]_vars

\* C27: if ticks keep occurring, every committed trade above the threshold
\* is eventually in whale_trades and passed to the notifier, whatever the
\* refresh and unique-trader steps of the tick that indexed it did and
\* with no further trade arriving.  On a finite run: while the scheduler
\* runs, a sync_job that reaches its end without an exception leaves no
\* committed trade above the threshold out of whale_trades or unnotified
\* (a later call that indexes nothing ends in the state it started in).
C27_WhaleEventuallyNotified ==
    [][\A t \in Tasks :
          ( /\ running
            /\ job[t].pc \in BodyPcs
            /\ job'[t].pc = "done"
            /\ ~job'[t].raised )
          => \A i \in 1..Len(committed'.trades) :
                IsWhale(committed'.trades[i], WHALE_THRESHOLD)
                => /\ HasKey(committed'.whale_trades,
                             committed'.trades[i].tx_hash,
                             committed'.trades[i].log_index)
                   /\ i \in Range(notified')]_vars

\* C28: the connected envelope is the first message a subscriber receives:
\* no broadcast message reaches a handle before its connected envelope.
C28_ConnectedFirst ==
    \A h \in Handles :
        received[h] # <<>> => received[h][1] = Connected

\* C29: the dictionary trigger_sync returns describes a sync executed by
\* that call: it is a result, and its sync_count is the value sync_count
\* had during the call, whatever is_syncing was when the call was made.
C29_TriggerResultIsOwn ==
    [][\A t \in Tasks :
          ( /\ job[t].pc # "done"
            /\ job'[t].pc = "done"
            /\ job'[t].kind = "trigger" )
          => /\ job'[t].ret.set
             /\ job'[t].ret.sync_count = sync_count']_vars

\* the trades the current invocation has inserted that carry token_id
NewTradesOf(token_id) ==
    {i \in (Len(Cur.before.trades) + 1)..Len(view.trades) :
        view.trades[i].token_id = token_id}

\* C30: within one scan, once on-demand discovery for a token has run and
\* a log carrying the token has been persisted, no later log carrying the
\* token is left out as an unknown token, and the trades of the token go
\* to one market.
C30_LaterLogsPersisted ==
    /\ [][( /\ hist # <<>>
            /\ Len(hist') = Len(hist) )
          => \A l \in Cur'.unknown_logs \ Cur.unknown_logs :
                ~( /\ determine_trade_details(l).token_id \in Range(Cur.discovered)
                   /\ NewTradesOf(determine_trade_details(l).token_id) # {} )]_vars
    /\ [](hist # <<>> =>
            \A i, j \in (Len(Cur.before.trades) + 1)..Len(view.trades) :
                view.trades[i].token_id = view.trades[j].token_id
                => view.trades[i].market_id = view.trades[j].market_id)

====
